---- MODULE Spec2Model ----
(***************************************************************************)
(* Model of the install command of continue-package-manager:              *)
(* constructInstallationPlan with its three resolution phases             *)
(* (buildDependencyGraph, findOptimalVersion, buildInstallationPlan /     *)
(* processDependency), the lock file codec (generatePackageLock,          *)
(* buildInstallationPlanFromLock) and the lock file storage of            *)
(* util/paths (packageLockExists, readPackageLock, writePackageLock,      *)
(* setupFreshOutputDir).                                                   *)
(*                                                                         *)
(* Strings with '/' are modelled as sequences of their '/'-separated      *)
(* segments (a package name is one segment), JavaScript Map/Set/object    *)
(* values as sequences in insertion order, semantic versions as           *)
(* <<major, minor, patch>>, an undefined parent path as <<>>.             *)
(***************************************************************************)
EXTENDS Integers, Sequences, FiniteSets, TLC

\* ------------------------------------------------------------------------
\* Bounds of the model
\* ------------------------------------------------------------------------

\* Largest number of entries of the declared-dependency mapping.
MaxDeclared == 2

\* Depth of nested buildDependencyGraph calls at which the JavaScript call
\* stack is taken to be exhausted (RangeError).
MaxDepth == 4

\* ------------------------------------------------------------------------
\* Universe of package names, versions and ranges
\* ------------------------------------------------------------------------

Names == {"a", "b", "s"}

v100 == <<1, 0, 0>>
v110 == <<1, 1, 0>>
v200 == <<2, 0, 0>>

NoVersion == <<>>

Caret(v) == [op |-> "^", v |-> v]

Ranges == {Caret(v100), Caret(v110), Caret(v200)}

\* ------------------------------------------------------------------------
\* semver
\* ------------------------------------------------------------------------

\* semver.gt(x, y): numeric comparison of major, then minor, then patch
semverGt(x, y) ==
  \/ x[1] > y[1]
  \/ x[1] = y[1] /\ x[2] > y[2]
  \/ x[1] = y[1] /\ x[2] = y[2] /\ x[3] > y[3]

semverGte(x, y) == x = y \/ semverGt(x, y)

\* semver.satisfies(version, "^M.m.p"): at least M.m.p and no change of the
\* left-most non-zero component
semverSatisfies(version, range) ==
  LET b == range.v IN
  /\ semverGte(version, b)
  /\ IF b[1] > 0 THEN version[1] = b[1]
     ELSE IF b[2] > 0 THEN version[1] = 0 /\ version[2] = b[2]
     ELSE version = b

\* semver.maxSatisfying(versions, range): the highest satisfying version,
\* null (NoVersion) when none satisfies
RECURSIVE maxSatisfyingFrom(_, _, _, _)
maxSatisfyingFrom(versions, range, i, max) ==
  IF i > Len(versions) THEN max
  ELSE IF /\ semverSatisfies(versions[i], range)
          /\ (max = NoVersion \/ semverGt(versions[i], max))
       THEN maxSatisfyingFrom(versions, range, i + 1, versions[i])
       ELSE maxSatisfyingFrom(versions, range, i + 1, max)

maxSatisfying(versions, range) == maxSatisfyingFrom(versions, range, 1, NoVersion)

\* ------------------------------------------------------------------------
\* Insertion-ordered collections
\* ------------------------------------------------------------------------

SeqToSet(q) == {q[i] : i \in 1..Len(q)}

\* Set.add
SetAdd(q, x) == IF x \in SeqToSet(q) THEN q ELSE Append(q, x)

\* index of the entry with the given key in a Map / object, 0 when absent
RECURSIVE KeyIndexFrom(_, _, _)
KeyIndexFrom(entries, key, i) ==
  IF i > Len(entries) THEN 0
  ELSE IF entries[i].key = key THEN i
  ELSE KeyIndexFrom(entries, key, i + 1)

KeyIndex(entries, key) == KeyIndexFrom(entries, key, 1)

MapHas(entries, key) == KeyIndex(entries, key) # 0

MapGet(entries, key) == entries[KeyIndex(entries, key)].value

\* Map.set / obj[key] = value: an existing key keeps its position
MapSet(entries, key, value) ==
  IF MapHas(entries, key)
  THEN [entries EXCEPT ![KeyIndex(entries, key)].value = value]
  ELSE Append(entries, [key |-> key, value |-> value])

\* ------------------------------------------------------------------------
\* Registry responses
\* ------------------------------------------------------------------------

\* Object.keys(metadata.versions || {})
availableVersions(metadata) ==
  [i \in 1..Len(metadata.versions) |-> metadata.versions[i].key]

Dep(n, r) == [key |-> n, value |-> r]

\* what a version of package n may declare as dependencies
DepChoices(n) ==
  CASE n = "a" -> { <<>>,
                    <<Dep("b", Caret(v100))>>,
                    <<Dep("s", Caret(v100))>>,
                    <<Dep("s", Caret(v200))>>,
                    <<Dep("b", Caret(v100)), Dep("s", Caret(v100))>> }
    [] n = "b" -> { <<>>,
                    <<Dep("a", Caret(v100))>>,
                    <<Dep("a", Caret(v200))>>,
                    <<Dep("s", Caret(v110))>>,
                    <<Dep("s", Caret(v200))>> }
    [] OTHER   -> { <<>> }

\* the published versions of package n, in the order the registry lists them
VersionLists(n) ==
  CASE n = "a" -> {<<v100>>, <<v100, v200>>}
    [] n = "b" -> {<<v100>>}
    [] OTHER   -> {<<>>, <<v100, v200>>, <<v200, v110, v100>>}

\* the responses getPackageMetadata(n) may give
MetaChoices(n) ==
  UNION { { [versions |-> [i \in 1..Len(list) |->
                             [key |-> list[i], value |-> [dependencies |-> f[i]]]]]
            : f \in [1..Len(list) -> DepChoices(n)] }
          : list \in VersionLists(n) }

Unknown == [known |-> FALSE, versions |-> <<>>]

\* ------------------------------------------------------------------------
\* State
\* ------------------------------------------------------------------------

VARIABLES
  declared,         \* topLevelDependencies: the manifest's dependencies object
  lockFile,         \* content of output/package-lock.json
  registry,         \* what the registry answers for each name, once asked
  pc,               \* position of constructInstallationPlan
  metadataCache,    \* Map name -> PackageMetadata
  packageGraph,     \* Map name -> PackageNode
  gstack,           \* active buildDependencyGraph calls and their loops
  pending,          \* the (name, range) whose getPackageMetadata is awaited
  fetches,          \* number of getPackageMetadata calls per name in this run
  optimalVersions,  \* Map name -> version
  rootPackages,     \* Map name -> version placed at root
  plan,             \* the plan of buildInstallationPlan
  pstack,           \* processDependency calls still to be made, next first
  walk,             \* the processDependency calls made, with the branch taken
  result,           \* what constructInstallationPlan returned or threw
  history           \* outcome of the previous run, lock file writes of this run,
                    \* plan of the last fresh resolution, manifest edited since

vars == <<declared, lockFile, registry, pc, metadataCache, packageGraph, gstack,
          pending, fetches, optimalVersions, rootPackages, plan, pstack, walk,
          result, history>>

NoFile == [exists |-> FALSE]

NoResult == [status |-> "none", source |-> "none", plan |-> <<>>, error |-> ""]

Thrown(source, error) ==
  [status |-> "error", source |-> source, plan |-> <<>>, error |-> error]

Returned(source, p) ==
  [status |-> "plan", source |-> source, plan |-> p, error |-> ""]

NoPending == [key |-> "", value |-> Caret(v100)]

NoHistory == [previous |-> "none", previousDeclared |-> <<>>, writes |-> 0,
              freshKnown |-> FALSE, freshPlan |-> <<>>, edited |-> FALSE]

\* ------------------------------------------------------------------------
\* Phase 1: buildDependencyGraph
\* ------------------------------------------------------------------------

NewNode(name) == [name |-> name, versionRequirements |-> <<>>, dependencies |-> <<>>]

\* the range is recorded only when the node is created
AddRequirement_newNodeOnly(graph, name, versionRange) ==
  IF MapHas(graph, name) THEN graph
  ELSE MapSet(graph, name,
              [NewNode(name) EXCEPT !.versionRequirements = <<versionRange>>])

\* packageGraph.set(name, new node) unless present; versionRequirements.add
AddRequirement(graph, name, versionRange) ==
  LET g == IF MapHas(graph, name) THEN graph ELSE MapSet(graph, name, NewNode(name))
      node == MapGet(g, name)
  IN MapSet(g, name,
            [node EXCEPT !.versionRequirements = SetAdd(@, versionRange)])

\* packageNode.dependencies.get(depName).add(depVersionRange), creating the set
AddEdge(graph, name, depName, depVersionRange) ==
  LET node == MapGet(graph, name)
      old  == IF MapHas(node.dependencies, depName)
              THEN MapGet(node.dependencies, depName) ELSE <<>>
  IN MapSet(graph, name,
            [node EXCEPT !.dependencies = MapSet(@, depName, SetAdd(old, depVersionRange))])

\* metadata.versions[version].dependencies || {}
dependenciesOf(metadata, version) ==
  MapGet(metadata.versions, version).dependencies

\* a range that no version satisfies is passed over as if it had no
\* dependencies
GraphResolve_skipUnresolvable(cache, stack, name, versionRange) ==
  LET metadata == MapGet(cache, name)
      resolvedVersion == maxSatisfying(availableVersions(metadata), versionRange)
  IN /\ pc' = "graph"
     /\ result' = result
     /\ gstack' = <<[name |-> name,
                     todo |-> IF resolvedVersion = NoVersion THEN <<>>
                              ELSE dependenciesOf(metadata, resolvedVersion)]>> \o stack

\* the rest of buildDependencyGraph(name, versionRange) once the metadata is
\* cached: resolve the range, then enter the loop over the dependencies
GraphResolve(cache, stack, name, versionRange) ==
  LET metadata == MapGet(cache, name)
      resolvedVersion == maxSatisfying(availableVersions(metadata), versionRange)
  IN IF resolvedVersion = NoVersion
     THEN /\ pc' = "failed"
          /\ result' = Thrown("fresh", "Cannot resolve")
          /\ gstack' = stack
     ELSE /\ pc' = "graph"
          /\ result' = result
          /\ gstack' = <<[name |-> name,
                          todo |-> dependenciesOf(metadata, resolvedVersion)]>> \o stack

\* a cache check that never hits
cacheHas_never(cache, name) == FALSE

\* metadataCache.has(name)
cacheHas(cache, name) == MapHas(cache, name)

\* a call buildDependencyGraph(depName, depVersionRange) made by the loop of
\* the innermost active call (or by the loop over topLevelDependencies)
GraphVisit ==
  /\ pc = "graph"
  /\ gstack # <<>>
  /\ Head(gstack).todo # <<>>
  /\ LET top   == Head(gstack)
         d     == Head(top.todo)
         rest  == <<[top EXCEPT !.todo = Tail(@)]>> \o Tail(gstack)
         g1    == IF top.name = "" THEN packageGraph
                  ELSE AddEdge(packageGraph, top.name, d.key, d.value)
         g2    == AddRequirement(g1, d.key, d.value)
     IN IF Len(gstack) > MaxDepth
        THEN /\ pc' = "failed"
             /\ result' = Thrown("fresh", "RangeError")
             /\ packageGraph' = g1
             /\ gstack' = rest
             /\ pending' = pending
        ELSE /\ packageGraph' = g2
             /\ IF cacheHas(metadataCache, d.key)
                THEN /\ GraphResolve(metadataCache, rest, d.key, d.value)
                     /\ pending' = pending
                ELSE /\ pc' = "fetch"
                     /\ pending' = d
                     /\ gstack' = rest
                     /\ result' = result
  /\ UNCHANGED <<declared, lockFile, registry, metadataCache, fetches,
                 optimalVersions, rootPackages, plan, pstack, walk, history>>

\* getPackageMetadata(name) answers: the cache gets the versions, and the
\* call of buildDependencyGraph goes on
FetchAnswer ==
  /\ pc = "fetch"
  /\ \E m \in IF registry[pending.key].known
              THEN {[versions |-> registry[pending.key].versions]}
              ELSE MetaChoices(pending.key) :
       LET cache == MapSet(metadataCache, pending.key, [versions |-> m.versions])
       IN /\ registry' = [registry EXCEPT ![pending.key] =
                            [known |-> TRUE, versions |-> m.versions]]
          /\ metadataCache' = cache
          /\ GraphResolve(cache, gstack, pending.key, pending.value)
  /\ fetches' = [fetches EXCEPT ![pending.key] = @ + 1]
  /\ pending' = NoPending
  /\ UNCHANGED <<declared, lockFile, packageGraph, optimalVersions, rootPackages,
                 plan, pstack, walk, history>>

\* getPackageMetadata(name) throws "Failed to fetch package info"
FetchFail ==
  /\ pc = "fetch"
  /\ fetches' = [fetches EXCEPT ![pending.key] = @ + 1]
  /\ pc' = "failed"
  /\ result' = Thrown("fresh", "Failed to fetch package info")
  /\ pending' = NoPending
  /\ UNCHANGED <<declared, lockFile, registry, metadataCache, packageGraph, gstack,
                 optimalVersions, rootPackages, plan, pstack, walk, history>>

\* the loop of the innermost call is exhausted: the call returns
GraphReturn ==
  /\ pc = "graph"
  /\ gstack # <<>>
  /\ Head(gstack).todo = <<>>
  /\ gstack' = Tail(gstack)
  /\ pc' = IF Tail(gstack) = <<>> THEN "select" ELSE "graph"
  /\ UNCHANGED <<declared, lockFile, registry, metadataCache, packageGraph, pending,
                 fetches, optimalVersions, rootPackages, plan, pstack, walk,
                 result, history>>

\* ------------------------------------------------------------------------
\* Phase 2: findOptimalVersion
\* ------------------------------------------------------------------------

\* the inner loop: how many ranges of the requirement set the version satisfies
RECURSIVE satisfiedCountFrom(_, _, _, _)
satisfiedCountFrom(version, requirements, i, satisfiedCount) ==
  IF i > Len(requirements) THEN satisfiedCount
  ELSE satisfiedCountFrom(version, requirements, i + 1,
         IF semverSatisfies(version, requirements[i])
         THEN satisfiedCount + 1 ELSE satisfiedCount)

\* versionSatisfactionCount: Map version -> count, in the order of the versions
versionSatisfactionCount(versions, requirements) ==
  [i \in 1..Len(versions) |->
     [key |-> versions[i],
      value |-> satisfiedCountFrom(versions[i], requirements, 1, 0)]]

\* bestVersion is asked to be set also for a strictly higher count
betterVersion_needsBest(version, count, bestVersion, maxSatisfied) ==
  /\ bestVersion # NoVersion
  /\ \/ count > maxSatisfied
     \/ count = maxSatisfied /\ semverGt(version, bestVersion)

\* replacing bestVersion only on a strictly higher count
betterVersion_noTieBreak(version, count, bestVersion, maxSatisfied) ==
  count > maxSatisfied

\* the condition under which the second loop replaces bestVersion
betterVersion(version, count, bestVersion, maxSatisfied) ==
  \/ count > maxSatisfied
  \/ count = maxSatisfied /\ bestVersion # NoVersion /\ semverGt(version, bestVersion)

\* the second loop over versionSatisfactionCount.entries()
RECURSIVE bestVersionFrom(_, _, _, _)
bestVersionFrom(counts, i, bestVersion, maxSatisfied) ==
  IF i > Len(counts) THEN bestVersion
  ELSE IF betterVersion(counts[i].key, counts[i].value, bestVersion, maxSatisfied)
       THEN bestVersionFrom(counts, i + 1, counts[i].key, counts[i].value)
       ELSE bestVersionFrom(counts, i + 1, bestVersion, maxSatisfied)

\* findOptimalVersion(name); NoVersion stands for the throw
\* "Could not find optimal version"
findOptimalVersion(graph, cache, name) ==
  LET packageNode == MapGet(graph, name)
      metadata    == MapGet(cache, name)
  IN bestVersionFrom(
       versionSatisfactionCount(availableVersions(metadata),
                                packageNode.versionRequirements),
       1, NoVersion, 0)

\* the loop over packageGraph.entries() filling optimalVersions
computeOptimalVersions(graph, cache) ==
  [i \in 1..Len(graph) |->
     [key |-> graph[i].key, value |-> findOptimalVersion(graph, cache, graph[i].key)]]

Occurrence(name, versionRange, parentPath) ==
  [name |-> name, versionRange |-> versionRange, parentPath |-> parentPath]

\* the calls processDependency(name, versionRange) of the top-level loop
topLevelCalls(deps) ==
  [i \in 1..Len(deps) |-> Occurrence(deps[i].key, deps[i].value, <<>>)]

\* optimal versions for all nodes, then buildInstallationPlan starts
SelectOptimal ==
  /\ pc = "select"
  /\ LET optimal == computeOptimalVersions(packageGraph, metadataCache)
     IN IF \E i \in 1..Len(optimal) : optimal[i].value = NoVersion
        THEN /\ pc' = "failed"
             /\ result' = Thrown("fresh", "Could not find optimal version")
             /\ UNCHANGED <<optimalVersions, pstack>>
        ELSE /\ optimalVersions' = optimal
             /\ pstack' = topLevelCalls(declared)
             /\ pc' = IF declared = <<>> THEN "lock" ELSE "plan"
             /\ result' = result
  /\ UNCHANGED <<declared, lockFile, registry, metadataCache, packageGraph, gstack,
                 pending, fetches, rootPackages, plan, walk, history>>

\* ------------------------------------------------------------------------
\* Phase 3: buildInstallationPlan / processDependency
\* ------------------------------------------------------------------------

Entry(name, version, parentDirectory) ==
  [name |-> name, version |-> version, parentDirectory |-> parentDirectory]

\* the record of one call of processDependency: its arguments, the branch it
\* took, the version it looked at and the calls it makes for dependencies
Walked(occ, branch, version, children) ==
  [name |-> occ.name, versionRange |-> occ.versionRange,
   parentPath |-> occ.parentPath, branch |-> branch, version |-> version,
   children |-> children]

\* taking the optimal version without looking at the range
satisfiesRange_ignored(optimal, name, versionRange) == MapHas(optimal, name)

\* semver.satisfies(optimalVersions.get(name), versionRange)
satisfiesRange(optimal, name, versionRange) ==
  /\ MapHas(optimal, name)
  /\ semverSatisfies(MapGet(optimal, name), versionRange)

\* a root table that is never found to hold the version
alreadyAtRoot_never(root, name, version) == FALSE

\* rootPackages.has(name) && rootPackages.get(name) === version
alreadyAtRoot(root, name, version) ==
  MapHas(root, name) /\ MapGet(root, name) = version

\* the test for the name being at root is negated
rootConflict_negated(root, name, version) ==
  ~MapHas(root, name) \/ MapGet(root, name) # version

\* rootPackages.has(name) && rootPackages.get(name) !== version
rootConflict(root, name, version) ==
  MapHas(root, name) /\ MapGet(root, name) # version

\* semver.minSatisfying in the place of semver.maxSatisfying
specificVersion_lowest(metadata, versionRange) ==
  LET versions == availableVersions(metadata)
      hits == {i \in 1..Len(versions) : semverSatisfies(versions[i], versionRange)}
  IN IF hits = {} THEN NoVersion
     ELSE versions[CHOOSE i \in hits :
                     \A j \in hits : semverGte(versions[j], versions[i])]

\* semver.maxSatisfying(Object.keys(metadata.versions || {}), versionRange)
\* of the else branch
specificVersion(metadata, versionRange) ==
  maxSatisfying(availableVersions(metadata), versionRange)

\* the calls for the dependencies are put off until the calls that were
\* already waiting have been made
callsBefore_queued(children, waiting) == waiting \o children

\* the calls for the dependencies are made, each to its end, before the
\* caller's loop goes on to the calls that were waiting
callsBefore(children, waiting) == children \o waiting

\* the parent path handed to the dependencies of a placed optimal version
newParentPath(isConflict, parentPath, name) ==
  IF isConflict \/ parentPath # <<>>
  THEN parentPath \o <<name, "node_modules">>
  ELSE <<name, "node_modules">>

\* the range-specific version is put at the top of node_modules
specificParentDirectory_root(parentPath) == <<>>

\* the parent directory of the entry pushed when the optimal version does not
\* satisfy the range
specificParentDirectory(parentPath) == parentPath

\* the parent path handed to the dependencies of a range-specific version
specificNewParentPath(parentPath, name) == parentPath \o <<name, "node_modules">>

\* the calls made by the loop over packageNode.dependencies.entries(): for
\* each dependency name the first range of its set
optimalChildren(graph, name, path) ==
  LET deps == MapGet(graph, name).dependencies
  IN [i \in 1..Len(deps) |-> Occurrence(deps[i].key, deps[i].value[1], path)]

\* the calls made by the loop over the dependencies of a specific version
specificChildren(dependencies, path) ==
  [i \in 1..Len(dependencies) |->
     Occurrence(dependencies[i].key, dependencies[i].value, path)]

\* one call processDependency(name, versionRange, parentPath), up to the
\* calls it makes for the dependencies
ProcessDependency ==
  /\ pc = "plan"
  /\ pstack # <<>>
  /\ LET occ  == Head(pstack)
         name == occ.name
         goOn(children) ==
           /\ pstack' = callsBefore(children, Tail(pstack))
           /\ pc' = IF callsBefore(children, Tail(pstack)) = <<>>
                    THEN "lock" ELSE "plan"
           /\ result' = result
     IN IF satisfiesRange(optimalVersions, name, occ.versionRange)
        THEN LET version    == MapGet(optimalVersions, name)
                 isConflict == rootConflict(rootPackages, name, version)
                 children   == optimalChildren(packageGraph, name,
                                 newParentPath(isConflict, occ.parentPath, name))
             IN IF alreadyAtRoot(rootPackages, name, version)
                THEN /\ goOn(<<>>)
                     /\ walk' = Append(walk, Walked(occ, "skip", version, <<>>))
                     /\ UNCHANGED <<rootPackages, plan>>
                ELSE /\ IF ~isConflict
                        THEN /\ rootPackages' = MapSet(rootPackages, name, version)
                             /\ plan' = Append(plan, Entry(name, version, <<>>))
                             /\ walk' = Append(walk,
                                          Walked(occ, "root", version, children))
                        ELSE /\ plan' = Append(plan, Entry(name, version, occ.parentPath))
                             /\ walk' = Append(walk,
                                          Walked(occ, "conflict", version, children))
                             /\ UNCHANGED rootPackages
                     /\ goOn(children)
        ELSE IF ~MapHas(metadataCache, name)
        THEN /\ pc' = "failed"
             /\ result' = Thrown("fresh", "TypeError")
             /\ UNCHANGED <<rootPackages, plan, pstack, walk>>
        ELSE LET metadata == MapGet(metadataCache, name)
                 version  == specificVersion(metadata, occ.versionRange)
             IN IF version = NoVersion
                THEN /\ pc' = "failed"
                     /\ result' = Thrown("fresh", "Cannot resolve")
                     /\ UNCHANGED <<rootPackages, plan, pstack, walk>>
                ELSE LET children == specificChildren(
                                       dependenciesOf(metadata, version),
                                       specificNewParentPath(occ.parentPath, name))
                     IN /\ plan' = Append(plan, Entry(name, version,
                                              specificParentDirectory(occ.parentPath)))
                        /\ walk' = Append(walk,
                                     Walked(occ, "specific", version, children))
                        /\ UNCHANGED rootPackages
                        /\ goOn(children)
  /\ UNCHANGED <<declared, lockFile, registry, metadataCache, packageGraph, gstack,
                 pending, fetches, optimalVersions, history>>

\* ------------------------------------------------------------------------
\* Lock file codec
\* ------------------------------------------------------------------------

LockEntry(name, version, resolved, integrity, hasDependencies, dependencies) ==
  [name |-> name, version |-> version, resolved |-> resolved,
   integrity |-> integrity, hasDependencies |-> hasDependencies,
   dependencies |-> dependencies]

LockContent(parses, name, version, lockfileVersionIsNumber, hasPackages, packages) ==
  [exists |-> TRUE, parses |-> parses, name |-> name, version |-> version,
   lockfileVersionIsNumber |-> lockfileVersionIsNumber, lockfileVersion |-> 3,
   requires |-> TRUE, hasPackages |-> hasPackages, packages |-> packages]

\* no name is taken for a declared one
isTopLevel_never(deps, name) == FALSE

\* topLevelDependencies.hasOwnProperty(name)
isTopLevel(deps, name) == MapHas(deps, name)

\* the first loop of generatePackageLock: the versions of the root-level
\* entries of the declared names
RECURSIVE resolvedTopLevelFrom(_, _, _, _)
resolvedTopLevelFrom(installationPlan, deps, i, resolved) ==
  IF i > Len(installationPlan) THEN resolved
  ELSE LET pkg == installationPlan[i]
       IN resolvedTopLevelFrom(installationPlan, deps, i + 1,
            IF pkg.parentDirectory = <<>> /\ isTopLevel(deps, pkg.name)
            THEN MapSet(resolved, pkg.name, pkg.version)
            ELSE resolved)

\* the key of an entry in packages
lockPath(pkg) ==
  IF pkg.parentDirectory # <<>>
  THEN <<"node_modules">> \o pkg.parentDirectory \o <<pkg.name>>
  ELSE <<"node_modules", pkg.name>>

\* the second loop of generatePackageLock: one record per entry, assigned to
\* its key
RECURSIVE lockPackagesFrom(_, _, _, _)
lockPackagesFrom(installationPlan, cache, i, packages) ==
  IF i > Len(installationPlan) THEN packages
  ELSE LET pkg == installationPlan[i]
           versionMetadata == MapGet(MapGet(cache, pkg.name).versions, pkg.version)
       IN lockPackagesFrom(installationPlan, cache, i + 1,
            MapSet(packages, lockPath(pkg),
                   LockEntry("", pkg.version, <<pkg.name, pkg.version>>,
                             <<"sha512", pkg.name, pkg.version>>, TRUE,
                             versionMetadata.dependencies)))

generatePackageLock(projectName, projectVersion, installationPlan, cache, deps) ==
  LockContent(TRUE, projectName, projectVersion, TRUE, TRUE,
    lockPackagesFrom(installationPlan, cache, 1,
      <<[key |-> <<>>,
         value |-> LockEntry(projectName, projectVersion, <<>>, <<>>, TRUE,
                     resolvedTopLevelFrom(installationPlan, deps, 1, <<>>))]>>))

\* the declared names are not looked up in the root record
lockfileIsValid_always(rootPackage, deps) == TRUE

\* the validation loop of buildInstallationPlanFromLock
lockfileIsValid(rootPackage, deps) ==
  \A i \in 1..Len(deps) : MapHas(rootPackage.dependencies, deps[i].key)

\* the entry a non-root key of packages is parsed into
entryOfPath(path, packageInfo) ==
  IF Len(path) > 1
  THEN Entry(path[Len(path)], packageInfo.version,
             IF Len(path) > 2 THEN SubSeq(path, 2, Len(path) - 1) ELSE <<>>)
  ELSE Entry(path[1], packageInfo.version, <<>>)

\* the loop over Object.entries(packageLock.packages)
RECURSIVE planOfPackagesFrom(_, _, _)
planOfPackagesFrom(packages, i, p) ==
  IF i > Len(packages) THEN p
  ELSE planOfPackagesFrom(packages, i + 1,
         IF packages[i].key = <<>> THEN p
         ELSE Append(p, entryOfPath(packages[i].key, packages[i].value)))

buildInstallationPlanFromLock(packageLock, deps) ==
  IF \/ ~MapHas(packageLock.packages, <<>>)
     \/ ~MapGet(packageLock.packages, <<>>).hasDependencies
  THEN <<>>
  ELSE IF ~lockfileIsValid(MapGet(packageLock.packages, <<>>), deps)
  THEN <<>>
  ELSE planOfPackagesFrom(packageLock.packages, 1, <<>>)

\* ------------------------------------------------------------------------
\* visualizeInstallationTree
\* ------------------------------------------------------------------------

\* the order of localeCompare on the names
SortedNames == <<"a", "b", "s">>

\* [...packages].sort((a, b) => a.name.localeCompare(b.name)): a stable sort
RECURSIVE sortByNameFrom(_, _)
sortByNameFrom(packages, k) ==
  IF k > Len(SortedNames) THEN <<>>
  ELSE SelectSeq(packages, LAMBDA e : e.name = SortedNames[k])
         \o sortByNameFrom(packages, k + 1)

sortByName(packages) == sortByNameFrom(packages, 1)

\* a line `${indent}${prefix}${pkg.name}@${pkg.version}` of the tree, with
\* the base path under which it is printed
TreeLine(pkg, basePath) ==
  [name |-> pkg.name, version |-> pkg.version, basePath |-> basePath]

\* nestedPackages.get(path): the entries with that parent directory, in plan
\* order; empty when nestedPackages has no such key
nestedPackagesAt(installationPlan, path) ==
  SelectSeq(installationPlan, LAMBDA e : e.parentDirectory = path)

\* printTree(packages, basePath): the package lines it prints, from the i-th
\* of the sorted packages on
RECURSIVE printTreeFrom(_, _, _, _)
printTreeFrom(installationPlan, sortedPackages, i, basePath) ==
  IF i > Len(sortedPackages) THEN <<>>
  ELSE LET pkg      == sortedPackages[i]
           nextPath == basePath \o <<pkg.name, "node_modules">>
           nested   == nestedPackagesAt(installationPlan, nextPath)
       IN <<TreeLine(pkg, basePath)>>
            \o (IF nested # <<>>
                THEN printTreeFrom(installationPlan, sortByName(nested), 1, nextPath)
                ELSE <<>>)
            \o printTreeFrom(installationPlan, sortedPackages, i + 1, basePath)

\* the package lines of visualizeInstallationTree(installationPlan) and the
\* counts of its statistics
visualizeInstallationTree(installationPlan) ==
  LET rootPackages_ == sortByName(nestedPackagesAt(installationPlan, <<>>))
  IN [lines  |-> printTreeFrom(installationPlan, rootPackages_, 1, <<>>),
      total  |-> Len(installationPlan),
      rootCount |-> Len(rootPackages_),
      nestedCount |-> Len(installationPlan) - Len(rootPackages_)]

\* ------------------------------------------------------------------------
\* Lock file storage
\* ------------------------------------------------------------------------

\* a lock file that is never seen
packageLockExists_never(file) == FALSE

\* fs.existsSync(packageLockJsonPath)
packageLockExists(file) == file.exists

\* TRUE when readPackageLock returns the content, FALSE when it throws
readPackageLockSucceeds(file) ==
  /\ file.exists
  /\ file.parses
  /\ file.name # "" /\ file.version # NoVersion /\ file.hasPackages
  /\ file.lockfileVersionIsNumber

\* calculateIntegrity fetches a tarball per entry: it can throw only when the
\* plan has an entry
integrityCanFail(installationPlan) == installationPlan # <<>>

\* generatePackageLock and writePackageLock succeed; the plan is returned
WriteLock ==
  /\ pc = "lock"
  /\ lockFile' = generatePackageLock("my-project", v100, plan, metadataCache, declared)
  /\ history' = [history EXCEPT !.writes = @ + 1]
  /\ pc' = "done"
  /\ result' = Returned("fresh", plan)
  /\ UNCHANGED <<declared, registry, metadataCache, packageGraph, gstack, pending,
                 fetches, optimalVersions, rootPackages, plan, pstack, walk>>

\* calculateIntegrity throws while the lock is generated
IntegrityFail ==
  /\ pc = "lock"
  /\ integrityCanFail(plan)
  /\ pc' = "failed"
  /\ result' = Thrown("fresh", "Failed to calculate integrity")
  /\ UNCHANGED <<declared, lockFile, registry, metadataCache, packageGraph, gstack,
                 pending, fetches, optimalVersions, rootPackages, plan, pstack, walk,
                 history>>

\* ------------------------------------------------------------------------
\* constructInstallationPlan
\* ------------------------------------------------------------------------

NoFetches == [n \in Names |-> 0]

\* a lock file exists and is read: the plan is built from it and returned
StartFromLock ==
  /\ pc = "idle"
  /\ packageLockExists(lockFile)
  /\ readPackageLockSucceeds(lockFile)
  /\ pc' = "done"
  /\ result' = Returned("lock", buildInstallationPlanFromLock(lockFile, declared))
  /\ UNCHANGED <<declared, lockFile, registry, metadataCache, packageGraph, gstack,
                 pending, fetches, optimalVersions, rootPackages, plan, pstack, walk,
                 history>>

\* a lock file exists and readPackageLock throws
StartLockUnreadable ==
  /\ pc = "idle"
  /\ packageLockExists(lockFile)
  /\ ~readPackageLockSucceeds(lockFile)
  /\ pc' = "failed"
  /\ result' = Thrown("lock", "Invalid package-lock.json")
  /\ UNCHANGED <<declared, lockFile, registry, metadataCache, packageGraph, gstack,
                 pending, fetches, optimalVersions, rootPackages, plan, pstack, walk,
                 history>>

\* no lock file: fresh resolution starts with the loop over
\* topLevelDependencies calling buildDependencyGraph
StartFresh ==
  /\ pc = "idle"
  /\ ~packageLockExists(lockFile)
  /\ pc' = "graph"
  /\ gstack' = <<[name |-> "", todo |-> declared]>>
  /\ UNCHANGED <<declared, lockFile, registry, metadataCache, packageGraph, pending,
                 fetches, optimalVersions, rootPackages, plan, pstack, walk, result,
                 history>>

\* what is remembered of the run that ends: its outcome and, when it resolved
\* afresh and returned, its plan
historyAfter(h, res, deps) ==
  [previous |-> IF res.status = "plan" THEN "ok" ELSE "failed",
   previousDeclared |-> deps, writes |-> 0,
   freshKnown |-> IF res.status = "plan" /\ res.source = "fresh"
                  THEN TRUE ELSE h.freshKnown,
   freshPlan |-> IF res.status = "plan" /\ res.source = "fresh"
                 THEN res.plan ELSE h.freshPlan,
   edited |-> h.edited]

\* the root table is a module-level object that the next call finds filled
Exit_rootPackagesSurvive ==
  /\ pc \in {"done", "failed"}
  /\ pc' = "idle"
  /\ history' = historyAfter(history, result, declared)
  /\ metadataCache' = <<>>
  /\ packageGraph' = <<>>
  /\ gstack' = <<>>
  /\ pending' = NoPending
  /\ fetches' = NoFetches
  /\ optimalVersions' = <<>>
  /\ rootPackages' = rootPackages
  /\ plan' = <<>>
  /\ pstack' = <<>>
  /\ walk' = <<>>
  /\ result' = NoResult
  /\ UNCHANGED <<declared, lockFile, registry>>

\* constructInstallationPlan is left, by return or by throw: its caches, its
\* graph, its root table and its plan are locals and go with it; only the
\* files survive
Exit ==
  /\ pc \in {"done", "failed"}
  /\ pc' = "idle"
  /\ history' = historyAfter(history, result, declared)
  /\ metadataCache' = <<>>
  /\ packageGraph' = <<>>
  /\ gstack' = <<>>
  /\ pending' = NoPending
  /\ fetches' = NoFetches
  /\ optimalVersions' = <<>>
  /\ rootPackages' = <<>>
  /\ plan' = <<>>
  /\ pstack' = <<>>
  /\ walk' = <<>>
  /\ result' = NoResult
  /\ UNCHANGED <<declared, lockFile, registry>>

\* ------------------------------------------------------------------------
\* Environment between runs
\* ------------------------------------------------------------------------

RangesOf(n) ==
  CASE n = "a" -> {Caret(v100), Caret(v200)}
    [] n = "b" -> {Caret(v100)}
    [] OTHER   -> Ranges

\* the add command: one more entry in the manifest's dependencies
AddDependency ==
  /\ pc = "idle"
  /\ ~history.edited
  /\ Len(declared) < MaxDeclared
  /\ \E n \in Names : \E r \in RangesOf(n) :
       /\ ~MapHas(declared, n)
       /\ declared' = Append(declared, Dep(n, r))
  /\ history' = [history EXCEPT !.freshKnown = FALSE, !.freshPlan = <<>>]
  /\ UNCHANGED <<lockFile, registry, pc, metadataCache, packageGraph, gstack,
                 pending, fetches, optimalVersions, rootPackages, plan, pstack, walk,
                 result>>

\* the lock file is the one a fresh resolution wrote under the declared
\* dependencies as they are now: the manifest has not been edited since
ManifestAsInstalled == lockFile.exists /\ history.freshKnown /\ ~history.edited

\* the manifest is edited after an install: the range of a declared
\* dependency is changed. The runs that follow an edit are followed as long
\* as the lock file and the manifest stay as they are then.
ChangeRange ==
  /\ pc = "idle"
  /\ ManifestAsInstalled
  /\ \E k \in 1..Len(declared) : \E r \in RangesOf(declared[k].key) :
       /\ r # declared[k].value
       /\ declared' = [declared EXCEPT ![k].value = r]
  /\ history' = [history EXCEPT !.freshKnown = FALSE, !.freshPlan = <<>>,
                                !.edited = TRUE]
  /\ UNCHANGED <<lockFile, registry, pc, metadataCache, packageGraph, gstack,
                 pending, fetches, optimalVersions, rootPackages, plan, pstack, walk,
                 result>>

\* the manifest is edited after an install: a declared dependency is removed
RemoveDependency ==
  /\ pc = "idle"
  /\ ManifestAsInstalled
  /\ \E k \in 1..Len(declared) :
       declared' = SubSeq(declared, 1, k - 1) \o SubSeq(declared, k + 1, Len(declared))
  /\ history' = [history EXCEPT !.freshKnown = FALSE, !.freshPlan = <<>>,
                                !.edited = TRUE]
  /\ UNCHANGED <<lockFile, registry, pc, metadataCache, packageGraph, gstack,
                 pending, fetches, optimalVersions, rootPackages, plan, pstack, walk,
                 result>>

\* the output directory is removed, and the lock file with it
RemoveLock ==
  /\ pc = "idle"
  /\ ~history.edited
  /\ lockFile.exists
  /\ lockFile' = NoFile
  /\ history' = [NoHistory EXCEPT !.freshKnown = history.freshKnown,
                                  !.freshPlan = history.freshPlan]
  /\ UNCHANGED <<declared, registry, pc, metadataCache, packageGraph, gstack,
                 pending, fetches, optimalVersions, rootPackages, plan, pstack, walk,
                 result>>

\* lock files that were not written by this program
ForeignLocks ==
  LET sEntry == LockEntry("", v100, <<"s", v100>>, <<"sha512", "s", v100>>, TRUE, <<>>)
      sOnly  == <<[key |-> <<"node_modules", "s">>, value |-> sEntry]>>
      root(hasDeps) == <<[key |-> <<>>,
                          value |-> LockEntry("my-project", v100, <<>>, <<>>, hasDeps, <<>>)]>>
  IN { LockContent(FALSE, "", NoVersion, FALSE, FALSE, <<>>),
       LockContent(TRUE, "", v100, TRUE, TRUE, root(TRUE) \o sOnly),
       LockContent(TRUE, "my-project", NoVersion, TRUE, TRUE, root(TRUE) \o sOnly),
       LockContent(TRUE, "my-project", v100, FALSE, TRUE, root(TRUE) \o sOnly),
       LockContent(TRUE, "my-project", v100, TRUE, FALSE, <<>>),
       LockContent(TRUE, "my-project", v100, TRUE, TRUE, sOnly),
       LockContent(TRUE, "my-project", v100, TRUE, TRUE, root(FALSE) \o sOnly) }

Init ==
  /\ declared = <<>>
  /\ lockFile \in {NoFile} \cup ForeignLocks
  /\ registry = [n \in Names |-> Unknown]
  /\ pc = "idle"
  /\ metadataCache = <<>>
  /\ packageGraph = <<>>
  /\ gstack = <<>>
  /\ pending = NoPending
  /\ fetches = NoFetches
  /\ optimalVersions = <<>>
  /\ rootPackages = <<>>
  /\ plan = <<>>
  /\ pstack = <<>>
  /\ walk = <<>>
  /\ result = NoResult
  /\ history = NoHistory

Next ==
  \/ StartFromLock
  \/ StartLockUnreadable
  \/ StartFresh
  \/ GraphVisit
  \/ FetchAnswer
  \/ FetchFail
  \/ GraphReturn
  \/ SelectOptimal
  \/ ProcessDependency
  \/ WriteLock
  \/ IntegrityFail
  \/ Exit
  \/ AddDependency
  \/ ChangeRange
  \/ RemoveDependency
  \/ RemoveLock

Spec == Init /\ [][Next]_vars

\* ------------------------------------------------------------------------
\* Vocabulary of the properties
\* ------------------------------------------------------------------------

FreshPlanReturned == pc = "done" /\ result.status = "plan" /\ result.source = "fresh"

LockPlanReturned == pc = "done" /\ result.status = "plan" /\ result.source = "lock"

\* the published versions of a name, as a set
Published(n) == {registry[n].versions[i].key : i \in 1..Len(registry[n].versions)}

\* the ranges accumulated for a name in the graph, as a set
Requirements(n) == SeqToSet(MapGet(packageGraph, n).versionRequirements)

\* how many of the accumulated ranges a version satisfies
Satisfied(n, v) == Cardinality({r \in Requirements(n) : semverSatisfies(v, r)})

\* the highest published versions satisfying a range: one of them, or none
Highest(n, r) ==
  {v \in Published(n) :
     /\ semverSatisfies(v, r)
     /\ \A w \in Published(n) : semverSatisfies(w, r) => semverGte(v, w)}

\* the (name, range) pairs reachable from the declared dependencies through
\* the dependencies of the highest satisfying versions
DepsOfHighest(p) ==
  UNION {SeqToSet(registry[p.key].versions[i].value.dependencies) :
           i \in {j \in 1..Len(registry[p.key].versions) :
                    registry[p.key].versions[j].key \in Highest(p.key, p.value)}}

ReachStep(S) == S \cup UNION {DepsOfHighest(p) : p \in S}

RECURSIVE ReachFix(_)
ReachFix(S) ==
  LET T == ReachStep(S) IN IF T = S THEN S ELSE ReachFix(T)

ReachableNames == {p.key : p \in ReachFix(SeqToSet(declared))}

\* the position in the plan of the entry pushed by the i-th call
PlanIndex(i) == Cardinality({j \in 1..i : walk[j].branch # "skip"})

RootEntries(p, n) == {i \in 1..Len(p) : p[i].name = n /\ p[i].parentDirectory = <<>>}

\* ------------------------------------------------------------------------
\* Properties
\* ------------------------------------------------------------------------

\* C1: a freshly resolved plan that is returned has at most one entry without
\* parent directory per package name.
C1_AtMostOneRootEntryPerName ==
  FreshPlanReturned =>
    \A n \in Names : Cardinality(RootEntries(result.plan, n)) <= 1

\* C2: every entry pushed by a call processDependency(name, range, parent) is
\* an entry of that name whose version satisfies the range, and a call that
\* returns early because the name is at root finds a root version satisfying
\* the range.
C2_EntrySatisfiesWalkedRange ==
  pc \in {"plan", "lock", "done"} =>
    \A i \in 1..Len(walk) :
      IF walk[i].branch = "skip"
      THEN /\ MapHas(rootPackages, walk[i].name)
           /\ semverSatisfies(MapGet(rootPackages, walk[i].name), walk[i].versionRange)
      ELSE /\ PlanIndex(i) <= Len(plan)
           /\ plan[PlanIndex(i)].name = walk[i].name
           /\ semverSatisfies(plan[PlanIndex(i)].version, walk[i].versionRange)

C2_Witness ==
  /\ FreshPlanReturned
  /\ \E i \in 1..Len(walk) : walk[i].branch = "skip"
  /\ \E i \in 1..Len(walk) : walk[i].branch = "root"
  /\ \E i \in 1..Len(walk) : walk[i].branch = "specific"

\* C3: in a freshly resolved plan every entry without parent directory has
\* a version that satisfies the largest number of the ranges accumulated
\* for its name.
C3_RootEntryIsOptimal ==
  FreshPlanReturned =>
    \A i \in 1..Len(result.plan) :
      result.plan[i].parentDirectory = <<>> =>
        \A w \in Published(result.plan[i].name) :
          Satisfied(result.plan[i].name, w)
            <= Satisfied(result.plan[i].name, result.plan[i].version)

\* C4: the optimal version of every name of the graph is the published
\* version that satisfies the most accumulated ranges and, among those, the
\* greatest one, whatever the order of the versions and of the ranges.
C4_OptimalVersionIsBestCount ==
  pc \in {"plan", "lock", "done"} =>
    \A i \in 1..Len(optimalVersions) :
      LET n == optimalVersions[i].key
          v == optimalVersions[i].value
      IN /\ v \in Published(n)
         /\ \A w \in Published(n) :
              \/ Satisfied(n, w) < Satisfied(n, v)
              \/ Satisfied(n, w) = Satisfied(n, v) /\ semverGte(v, w)

\* a tie between a lower version listed first or last and a higher one
C4_Witness ==
  /\ pc \in {"plan", "lock", "done"}
  /\ \E i \in 1..Len(optimalVersions) :
       LET n == optimalVersions[i].key
           v == optimalVersions[i].value
       IN /\ Cardinality(Requirements(n)) >= 2
          /\ \E w \in Published(n) : w # v /\ Satisfied(n, w) = Satisfied(n, v)
  /\ \E i \in 1..Len(optimalVersions) :
       LET n == optimalVersions[i].key
           v == optimalVersions[i].value
       IN /\ availableVersions(MapGet(metadataCache, n))[1] = v
          /\ \E w \in Published(n) : w # v /\ Satisfied(n, w) = Satisfied(n, v)

\* C5: an entry pushed because the optimal version does not satisfy the
\* range always has a parent directory.
C5_SpecificVersionIsNested ==
  pc \in {"plan", "lock", "done"} =>
    \A i \in 1..Len(walk) :
      (walk[i].branch = "specific" /\ PlanIndex(i) <= Len(plan)) =>
        plan[PlanIndex(i)].parentDirectory # <<>>

\* C6: in a run getPackageMetadata is called at most once per name and only
\* for names reachable from the declared dependencies, and once the graph is
\* built it has been called exactly once for each reachable name; selection
\* and plan building call it no more.
C6_OneFetchPerReachableName ==
  /\ \A n \in Names : fetches[n] <= 1
  /\ IF pc \in {"select", "plan", "lock"} \/ FreshPlanReturned
     THEN {n \in Names : fetches[n] = 1} = ReachableNames
     ELSE (\E n \in Names : fetches[n] = 1) =>
            {n \in Names : fetches[n] = 1} \subseteq ReachableNames

\* a name required through two ranges, fetched once
C6_Witness ==
  /\ FreshPlanReturned
  /\ \E n \in Names :
       /\ MapHas(packageGraph, n)
       /\ Cardinality(Requirements(n)) >= 2
       /\ fetches[n] = 1
  /\ Cardinality(ReachableNames) = 3

\* C7: decoding the lock written for a freshly resolved plan, under the same
\* declared dependencies, gives the entries of the plan.
C7_LockRoundTrip ==
  FreshPlanReturned =>
    SeqToSet(buildInstallationPlanFromLock(lockFile, declared)) = SeqToSet(result.plan)

\* C8: a run that follows a successful run with the same declared
\* dependencies calls getPackageMetadata for no name and does not write the
\* lock file, and it returns the plan of the lock file.
C8_SecondRunFromLock ==
  (history.previous = "ok" /\ history.previousDeclared = declared) =>
    /\ \A n \in Names : fetches[n] = 0
    /\ history.writes = 0
    /\ pc \in {"idle", "done"}
    /\ pc = "done" => result.source = "lock"

C8_Witness ==
  /\ LockPlanReturned
  /\ history.previous = "ok"
  /\ history.previousDeclared = declared
  /\ Len(result.plan) >= 2

\* the lock's root record is missing, has no dependency mapping, or lacks a
\* declared name
LockOutdated ==
  \/ \A i \in 1..Len(lockFile.packages) : lockFile.packages[i].key # <<>>
  \/ \E i \in 1..Len(lockFile.packages) :
       /\ lockFile.packages[i].key = <<>>
       /\ \/ ~lockFile.packages[i].value.hasDependencies
          \/ \E k \in 1..Len(declared) :
               \A j \in 1..Len(lockFile.packages[i].value.dependencies) :
                 lockFile.packages[i].value.dependencies[j].key # declared[k].key

\* C9: a run that finds a lock file whose root record lacks a declared name
\* or the dependency mapping resolves afresh and returns a plan with an
\* entry for every declared dependency.
C9_OutdatedLockResolvedAfresh ==
  (pc = "done" /\ result.source = "lock" /\ LockOutdated) =>
    \A k \in 1..Len(declared) :
      \E i \in 1..Len(result.plan) : result.plan[i].name = declared[k].key

\* C10: a run that finds a malformed lock file does not fail because of it.
C10_MalformedLockNotFatal ==
  (lockFile.exists /\ ~readPackageLockSucceeds(lockFile)) => pc # "failed"

C12_FailureReturnsNothing ==
  /\ (pc = "failed" /\ result.source = "fresh") =>
        /\ result.status = "error"
        /\ result.plan = <<>>
        /\ history.writes = 0
        /\ ~lockFile.exists
  /\ pc # "failed" =>
        /\ \A i \in 1..Len(packageGraph) :
             LET n == packageGraph[i].key
             IN MapHas(metadataCache, n) =>
                  \A r \in Requirements(n) : Highest(n, r) # {}
        /\ \A n \in Names : fetches[n] >= 1 => MapHas(metadataCache, n)
  /\ (pc \in {"select", "plan", "lock"} \/ FreshPlanReturned) =>
        \A i \in 1..Len(packageGraph) : MapHas(metadataCache, packageGraph[i].key)
  /\ FreshPlanReturned =>
        \A j \in 1..Len(lockFile.packages) :
          lockFile.packages[j].key # <<>> =>
            lockFile.packages[j].value.integrity # <<>>

\* the integrity of an entry cannot be computed when two entries are
\* already in the plan
C12_Witness ==
  /\ pc = "failed"
  /\ result.error = "Failed to calculate integrity"
  /\ Len(plan) >= 2
  /\ ~lockFile.exists

\* C13: when the optimal version of a package satisfies only some of the
\* accumulated ranges, selection and plan building do not fail, and every
\* walked occurrence whose range the optimal version does not satisfy has an
\* entry of that package in the plan, at the parent path of the occurrence,
\* with a version satisfying the range.
C13_UnsatisfiedOccurrenceGetsOwnEntry ==
  /\ pc \in {"plan", "lock", "done"} =>
        \A i \in 1..Len(walk) :
          walk[i].branch = "specific" =>
            /\ ~semverSatisfies(MapGet(optimalVersions, walk[i].name),
                                walk[i].versionRange)
            /\ PlanIndex(i) <= Len(plan)
            /\ plan[PlanIndex(i)].name = walk[i].name
            /\ plan[PlanIndex(i)].parentDirectory = walk[i].parentPath
            /\ semverSatisfies(plan[PlanIndex(i)].version, walk[i].versionRange)
  /\ (pc = "failed" /\ result.source = "fresh") =>
        /\ result.error \notin {"Could not find optimal version", "TypeError"}
        /\ optimalVersions # <<>> => result.error = "Failed to calculate integrity"

\* an occurrence below another package that the optimal version does not
\* satisfy
C13_Witness ==
  /\ FreshPlanReturned
  /\ \E i \in 1..Len(walk) :
       /\ walk[i].branch = "specific"
       /\ walk[i].parentPath # <<>>
       /\ Satisfied(walk[i].name, MapGet(optimalVersions, walk[i].name))
            < Cardinality(Requirements(walk[i].name))

\* the records of the lock file other than the root record, in file order
NonRootRecords == SelectSeq(lockFile.packages, LAMBDA e : e.key # <<>>)

\* C14: buildInstallationPlanFromLock gives the empty plan that asks for a
\* fresh resolution when the root record is missing, when it has no
\* dependency mapping, or when a declared name is missing from the mapping,
\* and only then gives up the records: in every other case it returns one
\* entry per non-root record, in file order, named by the last segment of
\* the record's key and carrying the record's version.
C14_LockDecoding ==
  LockPlanReturned =>
    IF LockOutdated
    THEN result.plan = <<>>
    ELSE /\ Len(result.plan) = Len(NonRootRecords)
         /\ \A i \in 1..Len(NonRootRecords) :
              /\ result.plan[i].version = NonRootRecords[i].value.version
              /\ result.plan[i].name =
                   NonRootRecords[i].key[Len(NonRootRecords[i].key)]

\* a lock with a root record, a dependency mapping and two or more other
\* records, read when a declared name is missing from the mapping
C14_Witness ==
  /\ LockPlanReturned
  /\ LockOutdated
  /\ MapHas(lockFile.packages, <<>>)
  /\ MapGet(lockFile.packages, <<>>).hasDependencies
  /\ Len(NonRootRecords) >= 2

\* the (name, range) pairs a published version declares as dependencies
DeclaredBy(n, v) == SeqToSet(MapGet(registry[n].versions, v).dependencies)

\* the (name, range) pairs of the calls a call of processDependency makes
PairsWalkedBy(w) ==
  {[key |-> w.children[k].name, value |-> w.children[k].versionRange] :
     k \in 1..Len(w.children)}

\* C15: a call of processDependency that places the optimal version, at root
\* or nested, goes on to walk exactly the dependencies that version declares
\* in the registry metadata, each with the range that version declares.
C15_WalksDependenciesOfPlacedVersion ==
  pc \in {"plan", "lock", "done"} =>
    \A i \in 1..Len(walk) :
      walk[i].branch \in {"root", "conflict"} =>
        PairsWalkedBy(walk[i]) = DeclaredBy(walk[i].name, walk[i].version)

\* every node of g is a node of h, with at least its ranges and its edges
GraphWithin(g, h) ==
  \A i \in 1..Len(g) :
    /\ MapHas(h, g[i].key)
    /\ SeqToSet(g[i].value.versionRequirements)
         \subseteq SeqToSet(MapGet(h, g[i].key).versionRequirements)
    /\ \A k \in 1..Len(g[i].value.dependencies) :
         LET e == g[i].value.dependencies[k]
             to == MapGet(h, g[i].key).dependencies
         IN /\ MapHas(to, e.key)
            /\ SeqToSet(e.value) \subseteq SeqToSet(MapGet(to, e.key))

\* the graph once buildDependencyGraph has returned for every declared
\* dependency: its nodes are the reachable names, and the requirement set of
\* a node holds the ranges of the reachable pairs of that name
GraphIsReachClosure ==
  pc = "select" =>
    LET reach == ReachFix(SeqToSet(declared))
    IN /\ {packageGraph[i].key : i \in 1..Len(packageGraph)} = {p.key : p \in reach}
       /\ \A i \in 1..Len(packageGraph) :
            SeqToSet(packageGraph[i].value.versionRequirements)
              = {p.value : p \in {q \in reach : q.key = packageGraph[i].key}}

\* C16: once the graph is built for all declared dependencies, the
\* requirement set of each node is exactly the set of ranges r such that
\* (name, r) is declared or is a dependency of the highest satisfying version
\* of a reached pair, also for a node visited before under another range;
\* and while the graph is built, requirement sets and edge maps only grow.
C16_RequirementsAreReachedRanges ==
  /\ []GraphIsReachClosure
  /\ [][(pc \in {"graph", "fetch"}) => GraphWithin(packageGraph, packageGraph')]_vars

\* a name reached under two ranges, the second when it was already visited
C16_Witness ==
  /\ pc = "select"
  /\ \E i \in 1..Len(packageGraph) :
       Len(packageGraph[i].value.versionRequirements) >= 2
  /\ Len(packageGraph) = 3

\* C17: the entry pushed for an occurrence that the optimal version does not
\* satisfy has the highest published version of the package satisfying the
\* occurrence's range, whatever the optimal version and the root table are.
C17_SpecificVersionIsHighest ==
  pc \in {"plan", "lock", "done"} =>
    \A i \in 1..Len(walk) :
      walk[i].branch = "specific" =>
        /\ PlanIndex(i) <= Len(plan)
        /\ plan[PlanIndex(i)].version \in Highest(walk[i].name, walk[i].versionRange)

\* a range-specific entry chosen among two satisfying versions, while
\* another version of the name is at root
C17_Witness ==
  /\ FreshPlanReturned
  /\ \E i \in 1..Len(walk) :
       LET n == walk[i].name
           versions == registry[n].versions
       IN /\ walk[i].branch = "specific"
          /\ MapHas(rootPackages, n)
          /\ \E j, k \in 1..Len(versions) :
               /\ semverSatisfies(versions[j].key, walk[i].versionRange)
               /\ semverSatisfies(versions[k].key, walk[i].versionRange)
               /\ semverGt(versions[k].key, versions[j].key)

\* the next call of processDependency is for an occurrence whose range the
\* optimal version satisfies while the root table holds the name with that
\* version
SkipCase ==
  /\ pc = "plan"
  /\ pstack # <<>>
  /\ MapHas(optimalVersions, Head(pstack).name)
  /\ semverSatisfies(MapGet(optimalVersions, Head(pstack).name),
                     Head(pstack).versionRange)
  /\ \E i \in 1..Len(rootPackages) :
       /\ rootPackages[i].key = Head(pstack).name
       /\ rootPackages[i].value = MapGet(optimalVersions, Head(pstack).name)

\* C18: the call for an occurrence whose range the optimal version satisfies,
\* made when the root table holds the name with that version, appends no
\* entry, makes no call for a dependency, and leaves the plan and the root
\* table as they are.
C18_SkipChangesNothing ==
  [][SkipCase =>
       /\ plan' = plan
       /\ rootPackages' = rootPackages
       /\ pstack' = Tail(pstack)
       /\ Len(walk') = Len(walk) + 1
       /\ walk'[Len(walk')].children = <<>>]_vars

\* a skipped occurrence of a package that has dependencies in the graph
C18_Witness ==
  /\ pc \in {"plan", "lock", "done"}
  /\ \E i \in 1..Len(walk) :
       /\ walk[i].branch = "skip"
       /\ MapGet(packageGraph, walk[i].name).dependencies # <<>>
       /\ PlanIndex(i) >= 2

\* the position, among the declared dependencies, of the one during whose
\* walk the i-th call of processDependency is made
DeclaredIndexOf(i) ==
  KeyIndex(declared, IF walk[i].parentPath = <<>> THEN walk[i].name
                     ELSE walk[i].parentPath[1])

\* the calls made by the top-level loop, in the order they were made
TopLevelWalked == SelectSeq(walk, LAMBDA w : w.parentPath = <<>>)

\* C19: the plan is in depth-first discovery order. The declared
\* dependencies are walked in the order they are declared; every entry
\* appended while the i-th declared dependency is walked precedes every
\* entry appended while a later one is walked; and the entry of a package
\* precedes every entry appended while its dependencies are walked.
C19_PlanInDepthFirstOrder ==
  (pc \in {"plan", "lock"} \/ FreshPlanReturned) =>
    /\ Len(TopLevelWalked) <= Len(declared)
    /\ \A k \in 1..Len(TopLevelWalked) : TopLevelWalked[k].name = declared[k].key
    /\ pc # "plan" => Len(TopLevelWalked) = Len(declared)
    /\ \A i, j \in 1..Len(walk) :
         (walk[i].branch # "skip" /\ walk[j].branch # "skip"
            /\ DeclaredIndexOf(i) < DeclaredIndexOf(j)) =>
           PlanIndex(i) < PlanIndex(j)
    /\ \A j \in 1..Len(walk) :
         (walk[j].branch # "skip" /\ walk[j].parentPath # <<>>) =>
           \E i \in 1..(j - 1) :
             /\ walk[i].branch # "skip"
             /\ Occurrence(walk[j].name, walk[j].versionRange, walk[j].parentPath)
                  \in SeqToSet(walk[i].children)
             /\ PlanIndex(i) < PlanIndex(j)
             /\ plan[PlanIndex(i)].name = walk[i].name

\* two declared dependencies, the first with an entry for a dependency of a
\* dependency, the second with an entry of its own
C19_Witness ==
  /\ FreshPlanReturned
  /\ Len(declared) = 2
  /\ \E i, j \in 1..Len(walk) :
       /\ walk[i].branch # "skip" /\ walk[j].branch # "skip"
       /\ DeclaredIndexOf(i) = 1
       /\ Len(walk[i].parentPath) >= 4
       /\ DeclaredIndexOf(j) = 2

\* the key under which the lock file is to hold an entry
RecordKey(e) ==
  IF e.parentDirectory = <<>> THEN <<"node_modules", e.name>>
  ELSE <<"node_modules">> \o e.parentDirectory \o <<e.name>>

\* C20: the lock generated for a plan holds one record per entry and the
\* root record under the empty key, Len(plan) + 1 records in all; the record
\* of an entry is under node_modules/<name> when the entry has no parent
\* directory, under node_modules/<parentDirectory>/<name> otherwise, and it
\* carries the version of the entry.
C20_OneRecordPerEntry ==
  FreshPlanReturned =>
    /\ Len(lockFile.packages) = Len(result.plan) + 1
    /\ \E j \in 1..Len(lockFile.packages) : lockFile.packages[j].key = <<>>
    /\ \A i \in 1..Len(result.plan) :
         \E j \in 1..Len(lockFile.packages) :
           /\ lockFile.packages[j].key = RecordKey(result.plan[i])
           /\ lockFile.packages[j].value.version = result.plan[i].version

\* C21: in the lock written by a successful fresh resolution the dependency
\* mapping of the root record holds every declared name, with the version of
\* the entry of that name without parent directory (of the last one pushed,
\* should the plan hold several); so the lock is not rejected when it is
\* decoded under the same declared dependencies.
C21_RootRecordHoldsDeclared ==
  FreshPlanReturned =>
    /\ \E j \in 1..Len(lockFile.packages) :
         /\ lockFile.packages[j].key = <<>>
         /\ lockFile.packages[j].value.hasDependencies
         /\ \A k \in 1..Len(declared) :
              LET n    == declared[k].key
                  at   == RootEntries(result.plan, n)
                  deps == lockFile.packages[j].value.dependencies
              IN /\ at # {}
                 /\ \E d \in 1..Len(deps) :
                      /\ deps[d].key = n
                      /\ deps[d].value =
                           result.plan[CHOOSE i \in at : \A m \in at : m <= i].version
    /\ ~LockOutdated

\* two declared dependencies, the second already placed at root when the
\* top-level loop comes to it
C21_Witness ==
  /\ FreshPlanReturned
  /\ Len(declared) = 2
  /\ \E i \in 1..Len(walk) :
       /\ walk[i].parentPath = <<>>
       /\ walk[i].branch = "skip"
       /\ walk[i].name = declared[2].key

\* C22: fresh resolution comes to its end on every registry, also when the
\* resolved versions depend on each other in a circle, without unbounded
\* recursion: no run ends because the nested calls of buildDependencyGraph
\* have used up the call stack.
C22_NoUnboundedRecursion ==
  pc = "failed" => result.error # "RangeError"

\* C23: no two entries of a freshly resolved plan have the same name and the
\* same parent directory: every entry is a place of its own, and no two
\* entries come under the same key of the lock file.
C23_EntriesAreDistinctPlaces ==
  FreshPlanReturned =>
    \A i, j \in 1..Len(result.plan) :
      (i < j /\ result.plan[i].name = result.plan[j].name) =>
        /\ result.plan[i].parentDirectory # result.plan[j].parentDirectory
        /\ RecordKey(result.plan[i]) # RecordKey(result.plan[j])

\* C24: the parent directory of every nested entry of a freshly resolved plan
\* is the module directory of a package that the plan installs there: it
\* ends in <X>/node_modules, and the plan has an entry of X whose parent
\* directory is what precedes <X>/node_modules (none when nothing precedes).
C24_ContainerIsInstalled ==
  FreshPlanReturned =>
    \A i \in 1..Len(result.plan) :
      LET P == result.plan[i].parentDirectory
      IN P # <<>> =>
           /\ Len(P) >= 2
           /\ P[Len(P)] = "node_modules"
           /\ \E j \in 1..Len(result.plan) :
                /\ result.plan[j].name = P[Len(P) - 1]
                /\ result.plan[j].parentDirectory = SubSeq(P, 1, Len(P) - 2)

\* q is an initial part of p
IsPrefix(q, p) == Len(q) <= Len(p) /\ SubSeq(p, 1, Len(q)) = q

\* C25: every entry of a freshly resolved plan can resolve its own
\* dependencies: for each dependency (d, r) that the entry's version declares
\* in the registry, the plan has an entry of d with a version satisfying r in
\* the entry's own module directory, in a module directory enclosing the
\* entry, or at root.
C25_EntryResolvesItsDependencies ==
  FreshPlanReturned =>
    \A i \in 1..Len(result.plan) :
      LET e   == result.plan[i]
          own == e.parentDirectory \o <<e.name, "node_modules">>
      IN \A dep \in DeclaredBy(e.name, e.version) :
           \E j \in 1..Len(result.plan) :
             /\ result.plan[j].name = dep.key
             /\ semverSatisfies(result.plan[j].version, dep.value)
             /\ \/ result.plan[j].parentDirectory = <<>>
                \/ IsPrefix(result.plan[j].parentDirectory, own)

\* C26: all through plan building every name of the root table is mapped to
\* the optimal version of that name; so no call finds the name at root under
\* another version than the optimal one (the conflict branch is never
\* taken), and every entry with a parent directory was pushed for a range
\* that the optimal version does not satisfy.
C26_RootTableHoldsOptimalVersions ==
  (pc \in {"plan", "lock"} \/ FreshPlanReturned) =>
    /\ \A k \in 1..Len(rootPackages) :
         \E o \in 1..Len(optimalVersions) :
           /\ optimalVersions[o].key = rootPackages[k].key
           /\ optimalVersions[o].value = rootPackages[k].value
    /\ \A i \in 1..Len(walk) :
         /\ walk[i].branch # "conflict"
         /\ (walk[i].branch # "skip" /\ plan[PlanIndex(i)].parentDirectory # <<>>) =>
              /\ walk[i].branch = "specific"
              /\ ~semverSatisfies(MapGet(optimalVersions, walk[i].name),
                                  walk[i].versionRange)

\* a plan with a nested entry, built with two names in the root table, one
\* of them required under a range that its optimal version does not satisfy
C26_Witness ==
  /\ FreshPlanReturned
  /\ Len(rootPackages) >= 2
  /\ \E i \in 1..Len(plan) : plan[i].parentDirectory # <<>>
  /\ \E k \in 1..Len(rootPackages) :
       \E r \in Requirements(rootPackages[k].key) :
         ~semverSatisfies(rootPackages[k].value, r)

\* C27: once the graph is built without error, selection and plan building
\* do not fail: every name of the graph has a published version satisfying
\* one of its ranges, so an optimal version is found for it; every (name,
\* range) the plan builder walks or is about to walk is recorded in the
\* graph, so its optimal version is defined; and a range that the optimal
\* version does not satisfy has a published version satisfying it. A fresh
\* run fails before selection or when the plan is complete, never between.
C27_SelectionAndPlanCannotFail ==
  /\ (pc \in {"select", "plan", "lock"} \/ FreshPlanReturned) =>
        \A g \in 1..Len(packageGraph) :
          \E v \in Published(packageGraph[g].key) :
            \E r \in Requirements(packageGraph[g].key) : semverSatisfies(v, r)
  /\ (pc \in {"plan", "lock"} \/ FreshPlanReturned) =>
        /\ \A g \in 1..Len(packageGraph) :
             \E o \in 1..Len(optimalVersions) :
               /\ optimalVersions[o].key = packageGraph[g].key
               /\ optimalVersions[o].value \in Published(packageGraph[g].key)
        /\ \A occ \in SeqToSet(pstack) \cup
                       {Occurrence(walk[i].name, walk[i].versionRange,
                                   walk[i].parentPath) : i \in 1..Len(walk)} :
             /\ \E g \in 1..Len(packageGraph) : packageGraph[g].key = occ.name
             /\ occ.versionRange \in Requirements(occ.name)
             /\ Highest(occ.name, occ.versionRange) # {}
  /\ (pc = "failed" /\ result.source = "fresh") =>
        \/ result.error \in {"Failed to fetch package info", "Cannot resolve",
                              "RangeError"}
             /\ optimalVersions = <<>> /\ walk = <<>> /\ pstack = <<>>
        \/ result.error = "Failed to calculate integrity" /\ pstack = <<>>

\* plan building is about to walk, below another package, a range that the
\* optimal version of the name does not satisfy
C27_Witness ==
  /\ pc = "plan"
  /\ Len(walk) >= 2
  /\ pstack # <<>>
  /\ Head(pstack).parentPath # <<>>
  /\ ~semverSatisfies(MapGet(optimalVersions, Head(pstack).name),
                      Head(pstack).versionRange)

\* C28: a plan that constructInstallationPlan returns from an existing lock
\* file has, for every declared dependency, an entry without parent
\* directory whose version satisfies the range declared now; a lock whose
\* version no longer satisfies a changed range is not used.
C28_LockPlanSatisfiesDeclaredRanges ==
  LockPlanReturned =>
    \A k \in 1..Len(declared) :
      \E i \in 1..Len(result.plan) :
        /\ result.plan[i].name = declared[k].key
        /\ result.plan[i].parentDirectory = <<>>
        /\ semverSatisfies(result.plan[i].version, declared[k].value)

\* C29: every entry of a plan that constructInstallationPlan returns, from a
\* fresh resolution or from a lock file, is a package reachable from the
\* dependencies declared now; a lock written for more declared dependencies
\* is not used once one of them is removed.
C29_PlanWithinDeclaredReach ==
  (FreshPlanReturned \/ LockPlanReturned) =>
    \A n \in {result.plan[i].name : i \in 1..Len(result.plan)} :
      n \in ReachableNames

\* C30: the tree printed for the plan that plan building has produced has
\* one package line for every entry of the plan, printed under the entry's
\* parent directory, and no other: the number of package lines is the total
\* of the statistics, root count plus nested count.
C30_TreeShowsEveryEntryOnce ==
  (pc = "lock" \/ FreshPlanReturned) =>
    LET tree == visualizeInstallationTree(plan)
    IN /\ tree.total = tree.rootCount + tree.nestedCount
       /\ Len(tree.lines) = tree.total
       /\ \A i \in 1..Len(plan) :
            Cardinality({k \in 1..Len(tree.lines) :
                           /\ tree.lines[k].name = plan[i].name
                           /\ tree.lines[k].version = plan[i].version
                           /\ tree.lines[k].basePath = plan[i].parentDirectory})
              = Cardinality({j \in 1..Len(plan) : plan[j] = plan[i]})

====
